---- MODULE Spec2Model ----
(***************************************************************************)
(* A top-to-bottom run of the two notebooks held in                        *)
(* notebooks/spawning_salmon.ipynb (the salmon notebook, lines 1-413, and  *)
(* the coal-mining disasters notebook, lines 415-596).                     *)
(*                                                                         *)
(* A kernel executes the statements of the code cells in order.  Its state *)
(* is the namespace (name -> value), the model-context stack of the        *)
(* `with` blocks, the random variables registered in every pm.Model, the   *)
(* warnings filter, and the position of the run.  Library calls are        *)
(* modelled by what they do to that state: shapes of the arrays they       *)
(* return, names they register, errors they raise.  Greek identifiers of   *)
(* the source are spelled out (beta, sigma, mu, rho, eta, lambda).         *)
(***************************************************************************)
EXTENDS Integers, Sequences, FiniteSets, TLC

VARIABLES nb, file, pc, status, err, ns, ctx, rvs, filter, assigns, first, log

vars == <<nb, file, pc, status, err, ns, ctx, rvs, filter, assigns, first, log>>

(* Bounds of the data file ../data/salmon.txt, which is an input. *)
MaxRows == 2
MaxVal == 2

Notebooks == {"salmon", "disasters"}

(* ---------------------------------------------------------------- values *)

(* Every Python value is a record of the same fields:                      *)
(*   kind  what it is, name  its label (a random variable's name),         *)
(*   shape and data  of an array (data of sample arrays is random and kept *)
(*   empty), items  the keyed arrays of a DataFrame, trace or dict,        *)
(*   of  the pm.Model a model object, variable or trace belongs to, or the *)
(*   object an array was taken from.                                       *)
Val(kind, name, shape, data, items, of) ==
    [kind |-> kind, name |-> name, shape |-> shape, data |-> data,
     items |-> items, of |-> of]

Obj(kind) == Val(kind, "", <<>>, <<>>, {}, "")

Array(shape, data, of) == Val("array", "", shape, data, {}, of)

Item(key, shape) == [key |-> key, shape |-> shape]

Keys(v) == {it.key : it \in v.items}

Get(v, key) == CHOOSE it \in v.items : it.key = key

Min2(a, b) == IF a < b THEN a ELSE b

SeqMin(s) == CHOOSE m \in {s[i] : i \in DOMAIN s} : \A i \in DOMAIN s : m <= s[i]

(* mutant: the stop value included *)
arange_inclusive(start, stop) == [i \in 1..(stop - start + 1) |-> start + i - 1]

(* np.arange(start, stop): start, start+1, ..., stop-1 *)
arange(start, stop) == [i \in 1..(stop - start) |-> start + i - 1]

(* np.linspace(start, stop, num): num evenly spaced points, both ends      *)
(* included; the points are kept multiplied by num-1 to stay integers.     *)
linspace(start, stop, num) ==
    [i \in 1..num |-> start * (num - 1) + (stop - start) * (i - 1)]

(* ------------------------------------------------------------ statements *)

Stmt ==
    [cell |-> 0, line |-> 0, op |-> "", expr |-> "", reads |-> {},
     sub |-> {}, binds |-> <<>>, name |-> "", shape |-> <<>>, like |-> "",
     observed |-> FALSE, indexed |-> "", index |-> {}, pair |-> <<>>,
     uses |-> "",
     vars |-> <<>>, samples |-> 0, chains |-> 0, head |-> 0, exit |-> FALSE]

Sub(var, key) == [var |-> var, key |-> key]

ImportStmt(c, l, names) ==
    [Stmt EXCEPT !.cell = c, !.line = l, !.op = "import", !.binds = names]

SimpleFilterStmt(c, l) ==
    [Stmt EXCEPT !.cell = c, !.line = l, !.op = "filter", !.reads = {"warnings"}]

ReadTableStmt(c, l, target) ==
    [Stmt EXCEPT !.cell = c, !.line = l, !.op = "read_table", !.reads = {"pd"},
                 !.binds = <<target>>]

AssignStmt(c, l, targets, expr, reads, sub, exit) ==
    [Stmt EXCEPT !.cell = c, !.line = l, !.op = "assign", !.expr = expr,
                 !.binds = targets, !.reads = reads, !.sub = sub, !.exit = exit]

(* mu = beta[0] + beta[1] * x ... : the components of beta the mean uses *)
MeanStmt(c, l, target, index, reads) ==
    [Stmt EXCEPT !.cell = c, !.line = l, !.op = "assign", !.expr = "mean",
                 !.binds = <<target>>, !.reads = reads, !.index = index,
                 !.indexed = "beta"]

WithNewStmt(c, l, model) ==
    [Stmt EXCEPT !.cell = c, !.line = l, !.op = "with_new", !.reads = {"pm"},
                 !.binds = <<model>>]

WithStmt(c, l, model) ==
    [Stmt EXCEPT !.cell = c, !.line = l, !.op = "with", !.reads = {model},
                 !.uses = model]

(* A call that adds a named variable to the model on the context stack.    *)
(* Its shape is `shape`, or the length of the array named `like`.          *)
RVStmt(c, l, targets, name, shape, like, observed, reads, sub, exit) ==
    [Stmt EXCEPT !.cell = c, !.line = l, !.op = "rv", !.binds = targets,
                 !.name = name, !.shape = shape, !.like = like,
                 !.observed = observed, !.reads = reads, !.sub = sub,
                 !.exit = exit]

(* pm.sample(draws, ...): chains=2 as given, or one chain per core for    *)
(* cores=2                                                                 *)
SampleStmt(c, l, target, draws, chains) ==
    [Stmt EXCEPT !.cell = c, !.line = l, !.op = "sample", !.binds = <<target>>,
                 !.reads = {"pm"}, !.samples = draws, !.chains = chains,
                 !.exit = TRUE]

PPCStmt(c, l, target, trace, vs, samples) ==
    [Stmt EXCEPT !.cell = c, !.line = l, !.op = "ppc", !.binds = <<target>>,
                 !.reads = {"pm", trace} \cup {vs[i] : i \in DOMAIN vs},
                 !.uses = trace, !.vars = vs, !.samples = samples,
                 !.exit = TRUE]

(* A plotting call; `uses` names the trace it draws. *)
PlotStmt(c, l, targets, reads, sub, uses) ==
    [Stmt EXCEPT !.cell = c, !.line = l, !.op = "plot", !.binds = targets,
                 !.reads = reads, !.sub = sub, !.uses = uses]

(* ax.bar(a, b), sns.regplot(a, b): two arrays that must pair up *)
PairPlotStmt(c, l, reads, pair) ==
    [Stmt EXCEPT !.cell = c, !.line = l, !.op = "plot", !.reads = reads,
                 !.pair = pair]

(* ax.set_xlim(a[i], a[j] + 1): positions read from the array `indexed` *)
IndexPlotStmt(c, l, reads, indexed, index) ==
    [Stmt EXCEPT !.cell = c, !.line = l, !.op = "plot", !.reads = reads,
                 !.indexed = indexed, !.index = index]

(* for <targets> in <var>[key][:head]: ax.plot(...)   (head 0: no slice) *)
ForStmt(c, l, targets, var, key, head, reads, uses) ==
    [Stmt EXCEPT !.cell = c, !.line = l, !.op = "for", !.binds = targets,
                 !.reads = reads \cup {var}, !.sub = {Sub(var, key)},
                 !.head = head, !.uses = uses]

(* ------------------------------------------------- the salmon notebook *)

salmon_imports ==
    << ImportStmt(1, 23, <<"np", "pd", "pm", "az", "plt", "warnings">>),
       SimpleFilterStmt(1, 30) >>

salmon_load ==
    << ReadTableStmt(2, 39, "salmon_data"),
       PlotStmt(2, 40, <<>>, {"salmon_data"},
                {Sub("salmon_data", "spawners"), Sub("salmon_data", "recruits")}, "") >>

normal_prior_hist ==
    << AssignStmt(3, 68, <<"a_normal_distribution">>, "dist", {"pm"}, {}, FALSE),
       PlotStmt(3, 69, <<>>, {"plt", "a_normal_distribution"}, {}, "") >>

half_normal_prior_hist ==
    << AssignStmt(4, 78, <<"a_half_normal_distribution">>, "dist", {"pm"}, {}, FALSE),
       PlotStmt(4, 79, <<>>, {"plt", "a_half_normal_distribution"}, {}, "") >>

extract_xy ==
    << AssignStmt(5, 95, <<"x", "y">>, "columns", {"salmon_data"},
                  {Sub("salmon_data", "spawners"), Sub("salmon_data", "recruits")},
                  FALSE) >>

linear_salmon_model ==
    << WithNewStmt(6, 111, "linear_salmon_model"),
       RVStmt(6, 113, <<"beta">>, "beta", <<2>>, "", FALSE, {"pm"}, {}, FALSE),
       RVStmt(6, 114, <<"sigma">>, "sigma", <<>>, "", FALSE, {"pm"}, {}, FALSE),
       MeanStmt(6, 116, "mu", {0, 1}, {"beta", "x"}),
       RVStmt(6, 118, <<"recruits">>, "recruits", <<>>, "y", TRUE,
              {"pm", "mu", "sigma", "y"}, {}, TRUE) >>

linear_trace ==
    << WithStmt(7, 134, "linear_salmon_model"),
       SampleStmt(7, 136, "linear_trace", 1000, 2) >>

linear_plot_trace ==
    << PlotStmt(8, 152, <<>>, {"az", "linear_trace"}, {}, "linear_trace") >>

(* mutant: the grid X_pred is never computed *)
linear_plot_without_grid ==
    << PlotStmt(9, 170, <<"ax">>, {"salmon_data"},
                {Sub("salmon_data", "spawners"), Sub("salmon_data", "recruits")}, ""),
       PlotStmt(9, 171, <<>>, {"ax"}, {}, ""),
       ForStmt(9, 172, <<"b0", "b1">>, "linear_trace", "beta", 20,
               {"ax", "X_pred"}, "linear_trace") >>

linear_plot ==
    << AssignStmt(9, 168, <<"X_pred">>, "linspace", {"np"}, {}, FALSE),
       PlotStmt(9, 170, <<"ax">>, {"salmon_data"},
                {Sub("salmon_data", "spawners"), Sub("salmon_data", "recruits")}, ""),
       PlotStmt(9, 171, <<>>, {"ax"}, {}, ""),
       ForStmt(9, 172, <<"b0", "b1">>, "linear_trace", "beta", 20,
               {"ax", "X_pred"}, "linear_trace") >>

(* mutant: the quadratic model declared inside linear_salmon_model *)
quad_salmon_model_reusing_linear ==
    << WithStmt(10, 191, "linear_salmon_model"),
       RVStmt(10, 193, <<"beta">>, "beta", <<3>>, "", FALSE, {"pm"}, {}, FALSE),
       RVStmt(10, 194, <<"sigma">>, "sigma", <<>>, "", FALSE, {"pm"}, {}, FALSE),
       MeanStmt(10, 196, "mu", {0, 1, 2}, {"beta", "x"}),
       RVStmt(10, 198, <<"recruits">>, "recruits", <<>>, "y", TRUE,
              {"pm", "mu", "sigma", "y"}, {}, TRUE) >>

quad_salmon_model ==
    << WithNewStmt(10, 191, "quad_salmon_model"),
       RVStmt(10, 193, <<"beta">>, "beta", <<3>>, "", FALSE, {"pm"}, {}, FALSE),
       RVStmt(10, 194, <<"sigma">>, "sigma", <<>>, "", FALSE, {"pm"}, {}, FALSE),
       MeanStmt(10, 196, "mu", {0, 1, 2}, {"beta", "x"}),
       RVStmt(10, 198, <<"recruits">>, "recruits", <<>>, "y", TRUE,
              {"pm", "mu", "sigma", "y"}, {}, TRUE) >>

quad_trace ==
    << WithStmt(11, 207, "quad_salmon_model"),
       SampleStmt(11, 209, "quad_trace", 1000, 2) >>

(* mutant: the quadratic rows unpacked into two coefficients *)
quad_plot_two_coefficients ==
    << PlotStmt(12, 218, <<"ax">>, {"salmon_data"},
                {Sub("salmon_data", "spawners"), Sub("salmon_data", "recruits")}, ""),
       PlotStmt(12, 219, <<>>, {"ax"}, {}, ""),
       ForStmt(12, 220, <<"b0", "b1">>, "quad_trace", "beta", 20,
               {"ax", "X_pred"}, "quad_trace") >>

quad_plot ==
    << PlotStmt(12, 218, <<"ax">>, {"salmon_data"},
                {Sub("salmon_data", "spawners"), Sub("salmon_data", "recruits")}, ""),
       PlotStmt(12, 219, <<>>, {"ax"}, {}, ""),
       ForStmt(12, 220, <<"b0", "b1", "b2">>, "quad_trace", "beta", 20,
               {"ax", "X_pred"}, "quad_trace") >>

gp_salmon_model ==
    << WithNewStmt(13, 248, "gp_salmon_model"),
       RVStmt(13, 251, <<"rho">>, "rho", <<>>, "", FALSE, {"pm"}, {}, FALSE),
       RVStmt(13, 252, <<"eta">>, "eta", <<>>, "", FALSE, {"pm"}, {}, FALSE),
       AssignStmt(13, 254, <<"M">>, "object", {"pm", "salmon_data"},
                  {Sub("salmon_data", "recruits"), Sub("salmon_data", "spawners")},
                  FALSE),
       AssignStmt(13, 255, <<"K">>, "object", {"eta", "pm", "rho"}, {}, FALSE),
       RVStmt(13, 257, <<"sigma">>, "sigma", <<>>, "", FALSE, {"pm"}, {}, FALSE),
       AssignStmt(13, 259, <<"recruit_gp">>, "gp", {"pm", "M", "K"}, {}, FALSE),
       RVStmt(13, 260, <<>>, "recruits", <<>>, "salmon_data", TRUE,
              {"recruit_gp", "salmon_data", "sigma"},
              {Sub("salmon_data", "spawners"), Sub("salmon_data", "recruits")},
              TRUE) >>

gp_trace ==
    << WithStmt(14, 271, "gp_salmon_model"),
       SampleStmt(14, 272, "gp_trace", 1000, 2) >>

gp_plot_trace ==
    << PlotStmt(15, 281, <<>>, {"az", "gp_trace"},
                {Sub("gp_trace", "rho"), Sub("gp_trace", "eta"),
                 Sub("gp_trace", "sigma")}, "gp_trace") >>

(* mutant: the prediction made inside linear_salmon_model *)
salmon_pred_in_linear_model ==
    << WithStmt(16, 290, "linear_salmon_model"),
       RVStmt(16, 291, <<"salmon_pred">>, "salmon_pred", <<>>, "X_pred", FALSE,
              {"recruit_gp", "X_pred"}, {}, FALSE),
       PPCStmt(16, 292, "gp_salmon_samples", "gp_trace", <<"salmon_pred">>, 3) >>

salmon_pred ==
    << WithStmt(16, 290, "gp_salmon_model"),
       RVStmt(16, 291, <<"salmon_pred">>, "salmon_pred", <<>>, "X_pred", FALSE,
              {"recruit_gp", "X_pred"}, {}, FALSE),
       PPCStmt(16, 292, "gp_salmon_samples", "gp_trace", <<"salmon_pred">>, 3) >>

gp_plot_samples ==
    << PlotStmt(17, 301, <<"ax">>, {"salmon_data"},
                {Sub("salmon_data", "spawners"), Sub("salmon_data", "recruits")}, ""),
       PlotStmt(17, 302, <<>>, {"ax"}, {}, ""),
       ForStmt(17, 303, <<"x">>, "gp_salmon_samples", "salmon_pred", 0,
               {"ax", "X_pred"}, "") >>

gp_salmon_samples ==
    << WithStmt(18, 313, "gp_salmon_model"),
       PPCStmt(18, 314, "gp_salmon_samples", "gp_trace", <<"salmon_pred">>, 100) >>

gp_plot_dist ==
    << ImportStmt(19, 323, <<"plot_gp_dist">>),
       PlotStmt(19, 324, <<"fig", "ax">>, {"plt"}, {}, ""),
       PlotStmt(19, 325, <<>>, {"plot_gp_dist", "ax", "gp_salmon_samples", "X_pred"},
                {Sub("gp_salmon_samples", "salmon_pred")}, ""),
       PlotStmt(19, 326, <<>>, {"salmon_data", "ax"},
                {Sub("salmon_data", "spawners"), Sub("salmon_data", "recruits")}, ""),
       PlotStmt(19, 327, <<>>, {"ax"}, {}, "") >>

(* mutant: the sample count of the previous cell kept *)
salmon_pred_noise_100 ==
    << WithStmt(20, 336, "gp_salmon_model"),
       RVStmt(20, 337, <<"salmon_pred_noise">>, "salmon_pred_noise", <<>>, "X_pred",
              FALSE, {"recruit_gp", "X_pred"}, {}, FALSE),
       PPCStmt(20, 338, "gp_salmon_samples", "gp_trace", <<"salmon_pred_noise">>, 100) >>

salmon_pred_noise ==
    << WithStmt(20, 336, "gp_salmon_model"),
       RVStmt(20, 337, <<"salmon_pred_noise">>, "salmon_pred_noise", <<>>, "X_pred",
              FALSE, {"recruit_gp", "X_pred"}, {}, FALSE),
       PPCStmt(20, 338, "gp_salmon_samples", "gp_trace", <<"salmon_pred_noise">>, 500) >>

gp_plot_dist_noise ==
    << ImportStmt(21, 347, <<"plot_gp_dist">>),
       PlotStmt(21, 348, <<"fig", "ax">>, {"plt"}, {}, ""),
       PlotStmt(21, 349, <<>>, {"plot_gp_dist", "ax", "gp_salmon_samples", "X_pred"},
                {Sub("gp_salmon_samples", "salmon_pred_noise")}, ""),
       PlotStmt(21, 350, <<>>, {"salmon_data", "ax"},
                {Sub("salmon_data", "spawners"), Sub("salmon_data", "recruits")}, ""),
       PlotStmt(21, 351, <<>>, {"ax"}, {}, "") >>

salmon ==
    salmon_imports \o salmon_load \o normal_prior_hist \o half_normal_prior_hist
    \o extract_xy \o linear_salmon_model \o linear_trace \o linear_plot_trace
    \o linear_plot \o quad_salmon_model \o quad_trace \o quad_plot
    \o gp_salmon_model \o gp_trace \o gp_plot_trace \o salmon_pred
    \o gp_plot_samples \o gp_salmon_samples \o gp_plot_dist \o salmon_pred_noise
    \o gp_plot_dist_noise

(* ---------------------------------------------- the disasters notebook *)

(* mutant: the warnings filter left as it was *)
disasters_imports_without_filter ==
    << ImportStmt(1, 435, <<"pd", "np", "ma", "az", "pm">>),
       AssignStmt(1, 440, <<"cov">>, "object", {"pm"}, {}, FALSE),
       ImportStmt(1, 442, <<"datetime", "plt", "sns">>),
       PlotStmt(1, 445, <<>>, {"sns"}, {}, ""),
       ImportStmt(1, 447, <<"warnings">>) >>

disasters_imports ==
    << ImportStmt(1, 435, <<"pd", "np", "ma", "az", "pm">>),
       AssignStmt(1, 440, <<"cov">>, "object", {"pm"}, {}, FALSE),
       ImportStmt(1, 442, <<"datetime", "plt", "sns">>),
       PlotStmt(1, 445, <<>>, {"sns"}, {}, ""),
       ImportStmt(1, 447, <<"warnings">>),
       SimpleFilterStmt(1, 448) >>

disasters_data ==
    << 4, 5, 4, 0, 1, 4, 3, 4, 0, 6, 3, 3, 4, 0, 2, 6,
       3, 3, 5, 4, 5, 3, 1, 4, 4, 1, 5, 5, 3, 4, 2, 5,
       2, 2, 3, 4, 2, 1, 3, 2, 2, 1, 1, 1, 1, 3, 0, 0,
       1, 0, 1, 1, 0, 0, 3, 1, 0, 3, 2, 2, 0, 1, 1, 1,
       0, 1, 0, 1, 0, 0, 0, 2, 1, 0, 0, 0, 1, 1, 0, 2,
       3, 3, 1, 1, 2, 1, 1, 1, 1, 2, 4, 2, 0, 0, 1, 4,
       0, 0, 0, 1, 0, 0, 0, 0, 0, 1, 0, 0, 1, 0, 1 >>

year == arange(1851, 1962)

disasters_load ==
    << AssignStmt(2, 458, <<"disasters_data">>, "disasters_data", {"np"}, {}, FALSE),
       AssignStmt(2, 465, <<"year">>, "year", {"np"}, {}, FALSE),
       AssignStmt(2, 466, <<"year_ind">>, "year_ind", {"year"}, {}, FALSE) >>

disasters_bar_plot ==
    << PlotStmt(3, 475, <<"fig", "ax">>, {"plt"}, {}, ""),
       PairPlotStmt(3, 476, {"ax", "year", "disasters_data"},
                    <<"year", "disasters_data">>),
       IndexPlotStmt(3, 477, {"ax", "year"}, "year", {0, -1}),
       PlotStmt(3, 478, <<>>, {"ax"}, {}, ""),
       PlotStmt(3, 479, <<>>, {"ax"}, {}, "") >>

disasters_model ==
    << WithNewStmt(4, 488, "disasters_model"),
       RVStmt(4, 490, <<"rho">>, "rho", <<>>, "", FALSE, {"pm"}, {}, FALSE),
       RVStmt(4, 491, <<"eta">>, "eta", <<>>, "", FALSE, {"pm"}, {}, FALSE),
       AssignStmt(4, 493, <<"K">>, "object", {"eta", "cov", "rho"}, {}, FALSE),
       AssignStmt(4, 494, <<"gp">>, "gp", {"pm", "K"}, {}, TRUE) >>

f ==
    << WithStmt(5, 503, "disasters_model"),
       RVStmt(5, 505, <<"f">>, "f", <<>>, "year_ind", FALSE, {"gp", "year_ind"},
              {}, TRUE) >>

confirmation ==
    << WithStmt(6, 514, "disasters_model"),
       RVStmt(6, 516, <<"lambda">>, "lambda", <<>>, "f", FALSE, {"pm", "f"}, {}, FALSE),
       RVStmt(6, 518, <<"confirmation">>, "confirmation", <<>>, "disasters_data",
              TRUE, {"pm", "lambda", "disasters_data"}, {}, TRUE) >>

trace ==
    << WithStmt(7, 527, "disasters_model"),
       SampleStmt(7, 529, "trace", 1000, 2) >>

disasters_plot_posterior ==
    << PlotStmt(8, 538, <<>>, {"az", "trace"},
                {Sub("trace", "rho"), Sub("trace", "eta")}, "trace") >>

years ==
    << AssignStmt(9, 547, <<"years">>, "years", {"year"}, {}, FALSE) >>

y_pred ==
    << WithStmt(10, 556, "disasters_model"),
       PPCStmt(10, 557, "y_pred", "trace", <<"f">>, 1000) >>

disasters_plot_rate ==
    << PlotStmt(11, 566, <<"fig", "ax">>, {"plt"}, {}, ""),
       PlotStmt(11, 568, <<>>, {"pm", "ax", "np", "y_pred", "year"},
                {Sub("y_pred", "f")}, ""),
       PairPlotStmt(11, 569, {"sns", "year", "disasters_data", "ax"},
                    <<"year", "disasters_data">>),
       PlotStmt(11, 570, <<>>, {"ax", "year"}, {}, ""),
       PlotStmt(11, 571, <<>>, {"ax"}, {}, "") >>

disasters ==
    disasters_imports \o disasters_load \o disasters_bar_plot \o disasters_model
    \o f \o confirmation \o trace \o disasters_plot_posterior \o years \o y_pred
    \o disasters_plot_rate

Prog == IF nb = "salmon" THEN salmon ELSE disasters

(* ------------------------------------------------------------ the kernel *)

NoFile == [exists |-> FALSE, rows |-> <<>>]

(* ../data/salmon.txt: absent, or rows of <<spawners, recruits>> *)
Files ==
    {NoFile} \cup
    {[exists |-> TRUE, rows |-> r] :
        r \in UNION {[1..n -> (1..MaxVal) \X (1..MaxVal)] : n \in 1..MaxRows}}

Nothing == [n \in {} |-> Obj("")]

NoErr == [kind |-> "", stmt |-> 0, cell |-> 0]

Init ==
    /\ nb \in Notebooks
    /\ file \in (IF nb = "salmon" THEN Files ELSE {NoFile})
    /\ pc = 1
    /\ status = "running"
    /\ err = NoErr
    /\ ns = Nothing
    /\ ctx = "none"
    /\ rvs = [m \in {} |-> <<>>]
    /\ filter = "default"
    /\ assigns = [n \in {} |-> 0]
    /\ first = Nothing
    /\ log = <<>>

Cur == Prog[pc]

Ready(op) == status = "running" /\ pc \in DOMAIN Prog /\ Cur.op = op

(* first dimension of a value; a scalar has none *)
Dim(v) == IF v.shape = <<>> THEN 0 ELSE v.shape[1]

(* The lookup failure the statement at pc raises, "" when it raises none:  *)
(* a name it reads is unbound, or a key it subscripts is absent.           *)
LookupError ==
    IF ~(Cur.reads \subseteq DOMAIN ns) THEN "NameError"
    ELSE IF \E p \in Cur.sub : p.key \notin Keys(ns[p.var]) THEN "KeyError"
    ELSE ""

(* a[k] with k out of range raises IndexError *)
IndexError ==
    /\ Cur.indexed # ""
    /\ \E k \in Cur.index :
          ~(-Dim(ns[Cur.indexed]) <= k /\ k < Dim(ns[Cur.indexed]))

(* mutant: the failure is caught and the targets get a fallback value *)
RaiseWithFallback(kind) ==
    /\ status' = "error"
    /\ err' = [kind |-> kind, stmt |-> pc, cell |-> Prog[pc].cell]
    /\ ctx' = "none"
    /\ ns' = [n \in {Prog[pc].binds[i] : i \in DOMAIN Prog[pc].binds} |-> Obj("None")] @@ ns
    /\ UNCHANGED <<nb, file, pc, rvs, filter, assigns, first, log>>

(* An exception ends the run at the failing statement: nothing catches it. *)
(* Leaving the `with` block pops the model context.                        *)
Raise(kind) ==
    /\ status' = "error"
    /\ err' = [kind |-> kind, stmt |-> pc, cell |-> Cur.cell]
    /\ ctx' = "none"
    /\ UNCHANGED <<nb, file, pc, ns, rvs, filter, assigns, first, log>>

Entry(c, name, tr, curves) ==
    [stmt |-> pc, cell |-> Cur.cell, line |-> Cur.line, op |-> Cur.op,
     ctx |-> c, name |-> name, trace |-> tr, curves |-> curves,
     arity |-> Len(Cur.binds),
     read |-> {[var |-> p.var, key |-> p.key, shape |-> Get(ns[p.var], p.key).shape] :
                  p \in Cur.sub}]

(* the pm.Model that produced the trace the statement uses *)
UsedTrace == IF Cur.uses = "" THEN "" ELSE ns[Cur.uses].of

(* The statement completed: bind the names of b (each `times` times), move *)
(* to the next statement, leave the `with` block if it was its last one.   *)
Step(b, times, c, entry) ==
    /\ ns' = b @@ ns
    /\ assigns' = [n \in DOMAIN b \cup DOMAIN ns |->
                      (IF n \in DOMAIN assigns THEN assigns[n] ELSE 0)
                      + (IF n \in DOMAIN b THEN times ELSE 0)]
    /\ first' = first @@ b
    /\ ctx' = IF Cur.exit THEN "none" ELSE c
    /\ log' = Append(log, entry)
    /\ pc' = pc + 1
    /\ status' = IF pc = Len(Prog) THEN "done" ELSE "running"
    /\ UNCHANGED <<nb, file, err>>

Targets == {Cur.binds[i] : i \in DOMAIN Cur.binds}

(* import ..., from ... import ... *)
Import ==
    /\ Ready("import")
    /\ Step([n \in Targets |-> Obj("module")], 1, ctx, Entry(ctx, "", "", 0))
    /\ UNCHANGED <<rvs, filter>>

(* warnings.simplefilter('ignore') *)
simplefilter ==
    /\ Ready("filter")
    /\ IF LookupError # "" THEN Raise(LookupError)
       ELSE /\ filter' = "ignore"
            /\ Step(Nothing, 0, ctx, Entry(ctx, "", "", 0))
            /\ UNCHANGED rvs

(* pd.read_table('../data/salmon.txt', sep='\s+', index_col=0): a frame of *)
(* the columns spawners and recruits, kept column after column.            *)
read_table(fl) ==
    Val("frame", "", <<Len(fl.rows), 2>>,
        [i \in 1..Len(fl.rows) |-> fl.rows[i][1]]
            \o [i \in 1..Len(fl.rows) |-> fl.rows[i][2]],
        {Item("spawners", <<Len(fl.rows)>>), Item("recruits", <<Len(fl.rows)>>)},
        "salmon.txt")

ReadTable ==
    /\ Ready("read_table")
    /\ IF LookupError # "" THEN Raise(LookupError)
       ELSE IF ~file.exists THEN Raise("FileNotFoundError")
       ELSE /\ Step([n \in Targets |-> read_table(file)], 1, ctx,
                    Entry(ctx, "", "", 0))
            /\ UNCHANGED <<rvs, filter>>

(* frame[[c1, c2]].values.T: one row per selected column *)
Column(frame, k) ==
    Array(<<frame.shape[1]>>,
          SubSeq(frame.data, (k - 1) * frame.shape[1] + 1, k * frame.shape[1]),
          "salmon_data")

(* (year - year.min()) *)
Offsets(a) == [i \in DOMAIN a.data |-> a.data[i] - SeqMin(a.data)]

(* The value an assignment gives to its target number k. *)
Eval(expr, k) ==
    CASE expr = "columns"        -> Column(ns["salmon_data"], k)
      [] expr = "linspace"       -> Array(<<100>>, linspace(0, 500, 100), "")
      [] expr = "disasters_data" -> Array(<<Len(disasters_data)>>, disasters_data, "")
      [] expr = "year"           -> Array(<<Len(year)>>, year, "")
      [] expr = "year_ind"       ->
            Array(<<Dim(ns["year"]), 1>>, Offsets(ns["year"]), "")
      [] expr = "years"          ->
            Array(<<Dim(ns["year"])>>, Offsets(ns["year"]), "")
      [] expr = "gp"             -> Val("gp", "", <<>>, <<>>, {}, ctx)
      [] OTHER                   -> Obj(expr)

Assign ==
    /\ Ready("assign")
    /\ IF LookupError # "" THEN Raise(LookupError)
       ELSE IF IndexError THEN Raise("IndexError")
       ELSE /\ Step([n \in Targets |->
                        Eval(Cur.expr, CHOOSE k \in DOMAIN Cur.binds : Cur.binds[k] = n)],
                    1, ctx, Entry(ctx, "", "", 0))
            /\ UNCHANGED <<rvs, filter>>

(* with pm.Model() as m: *)
NewModel ==
    /\ Ready("with_new")
    /\ IF LookupError # "" THEN Raise(LookupError)
       ELSE /\ Step([n \in Targets |-> Val("model", "", <<>>, <<>>, {}, n)], 1,
                    Cur.binds[1], Entry(Cur.binds[1], "", "", 0))
            /\ rvs' = (Cur.binds[1] :> <<>>) @@ rvs
            /\ UNCHANGED filter

(* with m: *)
EnterModel ==
    /\ Ready("with")
    /\ IF LookupError # "" THEN Raise(LookupError)
       ELSE IF ns[Cur.uses].kind # "model" THEN Raise("AttributeError")
       ELSE /\ Step(Nothing, 0, ns[Cur.uses].of, Entry(ns[Cur.uses].of, "", "", 0))
            /\ UNCHANGED <<rvs, filter>>

Names(m) == {rvs[m][i].name : i \in DOMAIN rvs[m]}

RVShape == IF Cur.like = "" THEN Cur.shape ELSE <<Dim(ns[Cur.like])>>

(* pm.Normal('name', ...), pm.Deterministic, gp.prior, gp.conditional,     *)
(* gp.marginal_likelihood: add a named variable to the model in context.   *)
Register ==
    /\ Ready("rv")
    /\ IF LookupError # "" THEN Raise(LookupError)
       ELSE IF ctx = "none" THEN Raise("TypeError")
       ELSE IF Cur.name \in Names(ctx) THEN Raise("ValueError")
       ELSE /\ rvs' = [rvs EXCEPT ![ctx] =
                          Append(@, [name |-> Cur.name, shape |-> RVShape,
                                     observed |-> Cur.observed])]
            /\ Step([n \in Targets |-> Val("rv", Cur.name, RVShape, <<>>, {}, ctx)],
                    1, ctx, Entry(ctx, Cur.name, "", 0))
            /\ UNCHANGED filter

Concat(n, shape) == <<n>> \o shape

(* pm.sample(draws, chains=...): every unobserved variable of the model,   *)
(* draws * chains rows each.                                               *)
Trace(m, draws, chains) ==
    Val("trace", "", <<draws * chains>>, <<>>,
        {Item(rvs[m][i].name, Concat(draws * chains, rvs[m][i].shape)) :
            i \in {j \in DOMAIN rvs[m] : ~rvs[m][j].observed}},
        m)

Sample ==
    /\ Ready("sample")
    /\ IF LookupError # "" THEN Raise(LookupError)
       ELSE IF ctx = "none" THEN Raise("TypeError")
       ELSE /\ Step([n \in Targets |-> Trace(ctx, Cur.samples, Cur.chains)], 1, ctx,
                    Entry(ctx, Cur.binds[1], "", 0))
            /\ UNCHANGED <<rvs, filter>>

(* pm.sample_posterior_predictive(trace, vars=vs, samples=n): a dict with, *)
(* under each variable's name, n rows of the variable's shape.             *)
Predictive(vs, n) ==
    Val("dict", "", <<>>, <<>>,
        {Item(ns[vs[i]].name, Concat(n, ns[vs[i]].shape)) : i \in DOMAIN vs}, "")

sample_posterior_predictive ==
    /\ Ready("ppc")
    /\ IF LookupError # "" THEN Raise(LookupError)
       ELSE IF ctx = "none" THEN Raise("TypeError")
       ELSE /\ Step([n \in Targets |-> Predictive(Cur.vars, Cur.samples)], 1, ctx,
                    Entry(ctx, Cur.binds[1], UsedTrace, 0))
            /\ UNCHANGED <<rvs, filter>>

(* The sampler gives up (the library raises): the statement binds nothing. *)
SamplerFailure ==
    /\ status = "running" /\ pc \in DOMAIN Prog /\ Cur.op \in {"sample", "ppc"}
    /\ LookupError = "" /\ ctx # "none"
    /\ Raise("SamplingError")

PairError ==
    /\ Cur.pair # <<>>
    /\ Dim(ns[Cur.pair[1]]) # Dim(ns[Cur.pair[2]])

(* plt.*, ax.*, az.plot_*, plot_gp_dist, DataFrame.plot.scatter, sns.* *)
Plot ==
    /\ Ready("plot")
    /\ IF LookupError # "" THEN Raise(LookupError)
       ELSE IF IndexError THEN Raise("IndexError")
       ELSE IF PairError THEN Raise("ValueError")
       ELSE /\ Step([n \in Targets |-> Obj("axes")], 1, ctx,
                    Entry(ctx, "", UsedTrace, 0))
            /\ UNCHANGED <<rvs, filter>>

(* the rows a for statement iterates over: var[key], or var[key][:head] *)
Iter(st) == CHOOSE p \in st.sub : TRUE

Rows(st) == Get(ns[Iter(st).var], Iter(st).key).shape

Taken(st) == IF st.head = 0 THEN Rows(st)[1] ELSE Min2(st.head, Rows(st)[1])

(* for t1, ..., tk in rows: each row is bound to the one target, or        *)
(* unpacked into k targets and must then hold exactly k values.            *)
For ==
    /\ Ready("for")
    /\ IF LookupError # "" THEN Raise(LookupError)
       ELSE IF /\ Taken(Cur) > 0
               /\ Len(Cur.binds) > 1
               /\ Tail(Rows(Cur)) # <<Len(Cur.binds)>>
            THEN Raise("ValueError")
       ELSE /\ Step(IF Taken(Cur) = 0 THEN Nothing
                    ELSE [n \in Targets |->
                             Array(IF Len(Cur.binds) = 1 THEN Tail(Rows(Cur)) ELSE <<>>,
                                   <<>>, Iter(Cur).var)],
                    Taken(Cur), ctx, Entry(ctx, "", UsedTrace, Taken(Cur)))
            /\ UNCHANGED <<rvs, filter>>

Next ==
    \/ Import
    \/ simplefilter
    \/ ReadTable
    \/ Assign
    \/ NewModel
    \/ EnterModel
    \/ Register
    \/ Sample
    \/ sample_posterior_predictive
    \/ SamplerFailure
    \/ Plot
    \/ For

Spec == Init /\ [][Next]_vars

(* ---------------------------------------------------------------- claims *)

Done == status = "done"

Logged(l) == \E j \in DOMAIN log : log[j].line = l

(* the names whose targets the statements executed before log[j] bound *)
BoundBefore(n, j) ==
    \E k \in 1..(j - 1) :
        n \in {Prog[log[k].stmt].binds[i] : i \in DOMAIN Prog[log[k].stmt].binds}

(* C1: in a top-to-bottom run no statement raises a name or key lookup     *)
(* failure: every name the next statement reads is bound, every key it     *)
(* subscripts is present in the value the name holds at that moment.       *)
C1_NoLookupFailure ==
    /\ err.kind \notin {"NameError", "KeyError"}
    /\ (status = "running" /\ pc \in DOMAIN Prog) =>
          /\ Cur.reads \subseteq DOMAIN ns
          /\ \A p \in Cur.sub : p.key \in Keys(ns[p.var])

C1_Witness ==
    /\ Done /\ nb = "salmon"
    /\ \E j \in DOMAIN log :
          /\ log[j].line = 349
          /\ \E r \in log[j].read :
                r.var = "gp_salmon_samples" /\ r.key = "salmon_pred_noise"

DataNames == {"salmon_data", "x", "y", "disasters_data", "year", "year_ind"}

(* C2: every name holding loaded data or the arrays extracted from it is   *)
(* assigned exactly once and still holds the value of its first assignment *)
C2_DataAssignedOnce ==
    \A n \in DataNames \cap DOMAIN ns : assigns[n] = 1 /\ ns[n] = first[n]

(* C3: the disaster counts, year and year_ind have 111 entries each, and   *)
(* year_ind is the column 0, 1, ..., 110 with year_ind[i] = year[i] - 1851 *)
C3_DisastersPaired ==
    /\ err.kind = "ValueError" => Prog[err.stmt].pair = <<>>
    /\ "year_ind" \in DOMAIN ns =>
          /\ ns["disasters_data"].shape = <<111>>
          /\ Len(ns["disasters_data"].data) = 111
          /\ ns["year"].shape = <<111>>
          /\ Len(ns["year"].data) = 111
          /\ ns["year_ind"].shape = <<111, 1>>
          /\ ns["year_ind"].data = [i \in 1..111 |-> i - 1]
          /\ \A i \in 1..111 : ns["year_ind"].data[i] = ns["year"].data[i] - 1851

C3_Witness == Done /\ nb = "disasters" /\ Logged(476) /\ Logged(569)

(* C4: the first element of year is 1851 and the last element is 1962 *)
C4_YearCovers1851To1962 ==
    "year" \in DOMAIN ns =>
        /\ ns["year"].data[1] = 1851
        /\ ns["year"].data[Len(ns["year"].data)] = 1962

Reads(j, var, key, shape) ==
    log[j].read = {[var |-> var, key |-> key, shape |-> shape]}

(* C5: when each plotting statement reads it, the posterior sample array   *)
(* has the requested number of rows and one column per grid point:         *)
(* 3 x 100, then 100 x 100 for salmon_pred, 500 x 100 for                  *)
(* salmon_pred_noise (100 = points of X_pred), 1000 x 111 for f            *)
(* (111 = year indices).                                                   *)
C5_SampleShapes ==
    \A j \in DOMAIN log :
        /\ log[j].line = 303 =>
              /\ Reads(j, "gp_salmon_samples", "salmon_pred", <<3, 100>>)
              /\ log[j].curves = 3
        /\ log[j].line = 325 =>
              Reads(j, "gp_salmon_samples", "salmon_pred", <<100, 100>>)
        /\ log[j].line = 349 =>
              Reads(j, "gp_salmon_samples", "salmon_pred_noise", <<500, 100>>)
        /\ log[j].line \in {303, 325, 349} => Dim(ns["X_pred"]) = 100
        /\ log[j].line = 568 =>
              /\ Reads(j, "y_pred", "f", <<1000, 111>>)
              /\ Dim(ns["year_ind"]) = 111

C5_Witness == Done /\ nb = "salmon" /\ Logged(303) /\ Logged(325) /\ Logged(349)

(* the variables that recruit_gp.conditional adds for prediction *)
Conditionals == {"salmon_pred", "salmon_pred_noise"}

(* data bound before the model cell; priors and likelihood declared before *)
(* pm.sample; every use of a trace after the pm.sample that produced it    *)
C6_Order ==
    /\ \A j \in DOMAIN log : \A k \in DOMAIN log :
          (log[j].op = "with_new" /\ log[k].ctx = log[j].ctx) =>
              \A n \in Prog[log[k].stmt].reads \cap DataNames : BoundBefore(n, j)
    /\ \A j \in DOMAIN log : \A k \in DOMAIN log :
          (/\ log[j].op = "sample"
           /\ log[k].op = "rv" /\ log[k].ctx = log[j].ctx
           /\ log[k].name \notin Conditionals) => k < j
    /\ \A j \in DOMAIN log :
          log[j].trace # "" =>
              \E k \in 1..(j - 1) : log[k].op = "sample" /\ log[k].ctx = log[j].trace

(* C6 as stated: load data -> declare the model -> pm.sample -> plot, and  *)
(* every plot or posterior-predictive call that uses a trace runs inside   *)
(* the model that produced the trace.                                      *)
C6_TraceUsedInsideItsModel ==
    /\ C6_Order
    /\ \A j \in DOMAIN log : log[j].trace # "" => log[j].ctx = log[j].trace

(* C6 amended: the same order; every posterior-predictive call runs inside *)
(* the model that produced its trace, and every plot of a trace runs after *)
(* the `with` block has been left, in no model context.                    *)
C6_PredictiveInsideItsModel ==
    /\ C6_Order
    /\ \A j \in DOMAIN log :
          /\ (log[j].trace # "" /\ log[j].op = "ppc") => log[j].ctx = log[j].trace
          /\ (log[j].trace # "" /\ log[j].op \in {"plot", "for"}) => log[j].ctx = "none"

C6_Witness ==
    /\ Done /\ nb = "salmon"
    /\ \E j \in DOMAIN log : log[j].op = "ppc" /\ log[j].trace = "gp_salmon_model"
    /\ \E j \in DOMAIN log : log[j].op = "plot" /\ log[j].trace = "linear_salmon_model"
    /\ \E j \in DOMAIN log : log[j].op = "for" /\ log[j].trace = "quad_salmon_model"

(* C7: a failing statement ends the run in an error state at its cell: no  *)
(* step follows (no retry), the failing statement binds nothing (no        *)
(* fallback), nothing of a later cell has run, earlier bindings are kept.  *)
C7_FailureEndsRun ==
    /\ [](status = "error" =>
            /\ pc = err.stmt /\ Prog[pc].cell = err.cell
            /\ \A j \in DOMAIN log : log[j].stmt < pc /\ log[j].cell <= err.cell)
    /\ [][/\ status # "error"
          /\ status' = "error" =>
                ns' = ns /\ assigns' = assigns /\ rvs' = rvs /\ log' = log]_vars

C7_Witness ==
    /\ status = "error" /\ err.kind = "SamplingError"
    /\ Prog[err.stmt].line = 136
    /\ "x" \in DOMAIN ns /\ "linear_trace" \notin DOMAIN ns

(* C8: the 'ignore' filter is installed by the first code cell and is in   *)
(* force in every state from the end of that cell to the end of the run.   *)
C8_WarningsIgnored ==
    /\ \E i \in DOMAIN Prog : Prog[i].cell = 1 /\ Prog[i].op = "filter"
    /\ pc > Cardinality({i \in DOMAIN Prog : Prog[i].cell = 1}) => filter = "ignore"

C8_Witness == Done /\ nb = "disasters" /\ filter = "ignore"

Expected(m) ==
    CASE m = "linear_salmon_model" -> <<"beta", "sigma", "recruits">>
      [] m = "quad_salmon_model"   -> <<"beta", "sigma", "recruits">>
      [] m = "gp_salmon_model"     ->
            <<"rho", "eta", "sigma", "recruits", "salmon_pred", "salmon_pred_noise">>
      [] m = "disasters_model"     -> <<"rho", "eta", "f", "lambda", "confirmation">>

(* C9: in every model each named variable is registered once, no two under *)
(* the same name, in the order beta, sigma, recruits (linear, quadratic);  *)
(* rho, eta, sigma, recruits, salmon_pred, salmon_pred_noise (GP);         *)
(* rho, eta, f, lambda, confirmation (disasters).                          *)
C9_NamesRegisteredOnce ==
    /\ err.kind = "ValueError" => Prog[err.stmt].op # "rv"
    /\ \A m \in DOMAIN rvs :
          /\ \A i \in DOMAIN rvs[m] : \A j \in DOMAIN rvs[m] :
                rvs[m][i].name = rvs[m][j].name => i = j
          /\ Len(rvs[m]) <= Len(Expected(m))
          /\ \A i \in DOMAIN rvs[m] : rvs[m][i].name = Expected(m)[i]
          /\ Done => Len(rvs[m]) = Len(Expected(m))
    /\ Done => DOMAIN rvs =
          (IF nb = "salmon"
           THEN {"linear_salmon_model", "quad_salmon_model", "gp_salmon_model"}
           ELSE {"disasters_model"})

C9_Witness == Done /\ nb = "salmon" /\ Len(rvs["gp_salmon_model"]) = 6

Components(m) == IF m = "linear_salmon_model" THEN 2 ELSE 3

(* C10: each regression plot draws exactly 20 curves; every row of the     *)
(* trace of beta unpacks into exactly the coefficients the model declared  *)
(* and its mean uses (2 linear, 3 quadratic); the traces hold >= 20 rows.  *)
C10_TwentyCurves ==
    /\ err.kind \in {"ValueError", "IndexError"} =>
          ~(Prog[err.stmt].op = "for" \/ Prog[err.stmt].expr = "mean")
    /\ \A j \in DOMAIN log :
          /\ Prog[log[j].stmt].expr = "mean" =>
                /\ Prog[log[j].stmt].index = 0..(Components(log[j].ctx) - 1)
                /\ rvs[log[j].ctx][1].name = "beta"
                /\ rvs[log[j].ctx][1].shape = <<Components(log[j].ctx)>>
          /\ (log[j].op = "for" /\ log[j].trace # "") =>
                /\ log[j].curves = 20
                /\ log[j].arity = Components(log[j].trace)
                /\ \A r \in log[j].read :
                      r.key = "beta" /\ r.shape[1] >= 20
                      /\ r.shape[2] = Components(log[j].trace)

C10_Witness ==
    /\ nb = "salmon" /\ Logged(172) /\ Logged(220)
    /\ \E j \in DOMAIN log : log[j].line = 220 /\ log[j].curves = 20 /\ log[j].arity = 3

====
